---- MODULE Spec2Model ----
(***************************************************************************)
(* Model of the symbol utilities (utils_symbols.py), of the loose-text     *)
(* coercer and key translation (format_response.py) and of the requests    *)
(* sent by the entry points.  Strings are sequences of one-character       *)
(* strings; regular expressions are operators that return <<>> when the    *)
(* pattern does not match and <<group 1>> when it does.                    *)
(***************************************************************************)
EXTENDS Integers, Sequences, FiniteSets, TLC

VARIABLES pc, raw, result,
          fileExists, fieldnames, rows, idx, seen, out, ret, skipped,
          stock, text, parsed,
          data, translated, retranslated,
          entry, apiKey, creds, nSymbols, nQuotes, qidx, marketCalls, llmCalls, ticks,
          interrupted

vars == <<pc, raw, result, fileExists, fieldnames, rows, idx, seen, out, ret, skipped,
          stock, text, parsed, data, translated, retranslated,
          entry, apiKey, creds, nSymbols, nQuotes, qidx, marketCalls, llmCalls, ticks,
          interrupted>>

csvVars == <<fileExists, fieldnames, rows, idx, seen, out, ret, skipped>>

coerceVars == <<stock, text, parsed>>

translateVars == <<data, translated, retranslated>>

runVars == <<entry, apiKey, creds, nSymbols, nQuotes, qidx, marketCalls, llmCalls, ticks,
            interrupted>>

(***************************************************************************)
(* Bounds                                                                  *)
(***************************************************************************)
MaxBody == 3
MaxLong == 11
MaxRows == 3
MaxItems == 2
MaxKeys == 2
MaxSymbols == 2
MaxQuotes == 3
MaxTicks == 3

(***************************************************************************)
(* Characters and strings                                                  *)
(***************************************************************************)
UpperLetters == <<"A","B","C","D","E","F","G","H","I","J","K","L","M",
                  "N","O","P","Q","R","S","T","U","V","W","X","Y","Z">>
LowerLetters == <<"a","b","c","d","e","f","g","h","i","j","k","l","m",
                  "n","o","p","q","r","s","t","u","v","w","x","y","z">>
DigitChars == <<"0","1","2","3","4","5","6","7","8","9">>

Range(f) == {f[i] : i \in DOMAIN f}

IsUpperLetter(c) == c \in Range(UpperLetters)
IsLowerLetter(c) == c \in Range(LowerLetters)
IsLetter(c) == IsUpperLetter(c) \/ IsLowerLetter(c)
IsDigit(c) == c \in Range(DigitChars)
IsSpace(c) == c \in {" ", "\t", "\n", "\r"}

IndexOf(c, seq) == CHOOSE i \in DOMAIN seq : seq[i] = c

\* str.upper() on one character, then on a string
UpperChar(c) == IF IsLowerLetter(c) THEN UpperLetters[IndexOf(c, LowerLetters)] ELSE c
Upper(s) == [i \in DOMAIN s |-> UpperChar(s[i])]

\* str.lower()
LowerChar(c) == IF IsUpperLetter(c) THEN LowerLetters[IndexOf(c, UpperLetters)] ELSE c
Lower(s) == [i \in DOMAIN s |-> LowerChar(s[i])]

Drop(s, n) == SubSeq(s, n + 1, Len(s))

Min(S) == CHOOSE x \in S : \A y \in S : x <= y
Take(s, n) == SubSeq(s, 1, n)

StartsWith(s, p) == Len(s) >= Len(p) /\ Take(s, Len(p)) = p
EndsWith(s, p) == Len(s) >= Len(p) /\ Drop(s, Len(s) - Len(p)) = p

\* str.strip(): remove leading and trailing whitespace
RECURSIVE LStrip(_)
LStrip(s) == IF s # <<>> /\ IsSpace(Head(s)) THEN LStrip(Tail(s)) ELSE s
RECURSIVE RStrip(_)
RStrip(s) == IF s # <<>> /\ IsSpace(s[Len(s)]) THEN RStrip(Take(s, Len(s) - 1)) ELSE s
Strip(s) == RStrip(LStrip(s))

\* int(num) for a string of decimal digits
RECURSIVE ParseInt(_)
ParseInt(s) == IF s = <<>> THEN 0
               ELSE 10 * ParseInt(Take(s, Len(s) - 1)) + (IndexOf(s[Len(s)], DigitChars) - 1)

\* str(n) for n >= 0
RECURSIVE FormatInt(_)
FormatInt(n) == IF n < 10 THEN <<DigitChars[n + 1]>>
                ELSE FormatInt(n \div 10) \o <<DigitChars[(n % 10) + 1]>>

RECURSIVE Repeat(_, _)
Repeat(c, n) == IF n <= 0 THEN <<>> ELSE <<c>> \o Repeat(c, n - 1)

\* format(n, "05d"): at least five digits, zero-filled on the left
Format05d(n) == Repeat("0", 5 - Len(FormatInt(n))) \o FormatInt(n)

(***************************************************************************)
(* utils_symbols.py: the four patterns (all compiled with re.I)            *)
(***************************************************************************)
PrefixHK == <<"H","K",".">>
PrefixUS == <<"U","S",".">>
SuffixHK == <<".","H","K">>
SuffixUS == <<".","U","S">>

\* \d{1,5}
IsHkDigits(s) == Len(s) \in 1..5 /\ \A i \in DOMAIN s : IsDigit(s[i])

\* [A-Z0-9\-\.] under re.I
IsTickerChar(c) == IsLetter(c) \/ IsDigit(c) \/ c = "-" \/ c = "."

\* [A-Z][A-Z0-9\-\.]{0,9} under re.I
IsLedTicker(s) == Len(s) \in 1..10 /\ IsLetter(s[1]) /\ \A i \in DOMAIN s : IsTickerChar(s[i])

\* ^(?:HK\.)?(\d{1,5})$
_HK_RE_1(s) ==
    IF StartsWith(Upper(s), PrefixHK) /\ IsHkDigits(Drop(s, 3)) THEN <<Drop(s, 3)>>
    ELSE IF IsHkDigits(s) THEN <<s>>
    ELSE <<>>

\* ^(\d{1,5})\.HK$
_HK_RE_2(s) ==
    IF EndsWith(Upper(s), SuffixHK) /\ IsHkDigits(Take(s, Len(s) - 3))
    THEN <<Take(s, Len(s) - 3)>>
    ELSE <<>>

\* ^(?:US\.)?([A-Z][A-Z0-9\-\.]{0,9})$ : the optional group is greedy, so the
\* prefix is consumed when the rest still matches, and left in the ticker
\* otherwise
_US_RE_1(s) ==
    IF StartsWith(Upper(s), PrefixUS) /\ IsLedTicker(Drop(s, 3)) THEN <<Drop(s, 3)>>
    ELSE IF IsLedTicker(s) THEN <<s>>
    ELSE <<>>

\* ^([A-Z0-9\-\.]{1,10})\.US$
_US_RE_2(s) ==
    IF EndsWith(Upper(s), SuffixUS)
       /\ Len(s) - 3 \in 1..10
       /\ \A i \in 1..(Len(s) - 3) : IsTickerChar(s[i])
    THEN <<Take(s, Len(s) - 3)>>
    ELSE <<>>

_canon_hk_unpadded(num) == PrefixHK \o FormatInt(ParseInt(num))

_canon_hk(num) == PrefixHK \o Format05d(ParseInt(num))

_canon_us(ticker) == PrefixUS \o Upper(ticker)

Ok(s) == [kind |-> "ok", val |-> s]
Raise(e) == [kind |-> e, val |-> <<>>]

normalize_symbol_no_fallback(r) ==
    LET s == Strip(r) IN
    IF s = <<>> THEN Raise("EmptySymbol")
    ELSE IF _HK_RE_1(s) # <<>> THEN Ok(_canon_hk(_HK_RE_1(s)[1]))
    ELSE IF _HK_RE_2(s) # <<>> THEN Ok(_canon_hk(_HK_RE_2(s)[1]))
    ELSE IF _US_RE_1(s) # <<>> THEN Ok(_canon_us(_US_RE_1(s)[1]))
    ELSE IF _US_RE_2(s) # <<>> THEN Ok(_canon_us(_US_RE_2(s)[1]))
    ELSE Raise("InvalidSymbolFormat")

\* The two ValueErrors are told apart by their messages: "empty symbol" is
\* EmptySymbol, "Unsupported symbol format" is InvalidSymbolFormat.
normalize_symbol(r) ==
    LET s == Strip(r) IN
    IF s = <<>> THEN Raise("EmptySymbol")
    ELSE IF _HK_RE_1(s) # <<>> THEN Ok(_canon_hk(_HK_RE_1(s)[1]))
    ELSE IF _HK_RE_2(s) # <<>> THEN Ok(_canon_hk(_HK_RE_2(s)[1]))
    ELSE IF _US_RE_1(s) # <<>> THEN Ok(_canon_us(_US_RE_1(s)[1]))
    ELSE IF _US_RE_2(s) # <<>> THEN Ok(_canon_us(_US_RE_2(s)[1]))
    ELSE IF StartsWith(Upper(s), PrefixHK) \/ StartsWith(Upper(s), PrefixUS)
         THEN Ok(Upper(s))
    ELSE Raise("InvalidSymbolFormat")

(***************************************************************************)
(* Inputs of normalize_symbol                                              *)
(***************************************************************************)
BodyChars == {"A", "b", "7", "0", ".", "-", "!"}

RECURSIVE StringsUpTo(_, _)
StringsUpTo(chars, n) ==
    IF n = 0 THEN {<<>>}
    ELSE LET shorter == StringsUpTo(chars, n - 1)
         IN  shorter \cup {<<c>> \o s : c \in chars, s \in {t \in shorter : Len(t) = n - 1}}

LongBodies == {Repeat(c, n) : c \in {"A", "7"}, n \in (MaxBody + 1)..MaxLong}

Bodies == StringsUpTo(BodyChars, MaxBody) \cup LongBodies

Prefixes == {<<>>, PrefixHK, <<"h","k",".">>, PrefixUS, <<"u","s",".">>}
Suffixes == {<<>>, SuffixHK, <<".","h","k">>, SuffixUS, <<".","u","s">>}
Paddings == {<< <<>>, <<>> >>, << <<" ">>, <<"\t", " ">> >>}

\* the inputs named by the documentation of the normalizer
ExampleInputs ==
    { <<"a","a","p","l">>, <<"U","S",".","a","a","p","l">>, <<"A","A","P","L",".","U","S">>,
      <<"7","0","0">>, <<"H","K",".","7","0","0">>, <<"7","0","0",".","H","K">>,
      <<"H","K",".","0","0","7","0","0">>, <<"!","!","!">>, <<>>, <<" ", " ">> }

SymbolInputs ==
    {pad[1] \o p \o b \o s \o pad[2] : p \in Prefixes, b \in Bodies, s \in Suffixes, pad \in Paddings}
    \cup ExampleInputs

None == [kind |-> "none", val |-> <<>>]

(***************************************************************************)
(* SpecNormalize: one call of normalize_symbol                             *)
(***************************************************************************)
NoStock == <<"none", <<>> >>

CoerceIdle ==
    /\ stock = NoStock
    /\ text = <<>>
    /\ parsed = None

TranslateIdle ==
    /\ data = NoStock
    /\ translated = NoStock
    /\ retranslated = NoStock

RunIdle ==
    /\ entry = "none"
    /\ apiKey = FALSE
    /\ creds = FALSE
    /\ nSymbols = 0
    /\ nQuotes = 0
    /\ qidx = 0
    /\ marketCalls = 0
    /\ llmCalls = 0
    /\ ticks = 0
    /\ interrupted = FALSE

CsvIdle ==
    /\ fileExists = FALSE
    /\ fieldnames = <<>>
    /\ rows = <<>>
    /\ idx = 0
    /\ seen = {}
    /\ out = <<>>
    /\ ret = None
    /\ skipped = <<>>

InitNormalize ==
    /\ pc = "call"
    /\ raw \in SymbolInputs
    /\ result = None
    /\ CsvIdle
    /\ CoerceIdle
    /\ TranslateIdle
    /\ RunIdle

CallNormalize ==
    /\ pc = "call"
    /\ result' = normalize_symbol(raw)
    /\ pc' = "returned"
    /\ UNCHANGED <<coerceVars, translateVars, runVars, raw, csvVars>>

NextNormalize == CallNormalize

SpecNormalize == InitNormalize /\ [][NextNormalize]_vars

(***************************************************************************)
(* SpecRenormalize: a returned symbol is passed to normalize_symbol again, *)
(* as happens when a CSV of already normalized symbols is loaded.          *)
(***************************************************************************)
Renormalize ==
    /\ pc = "returned"
    /\ result.kind = "ok"
    /\ raw' = result.val
    /\ result' = normalize_symbol(raw')
    /\ pc' = "renormalized"
    /\ UNCHANGED <<coerceVars, translateVars, runVars, csvVars>>

NextRenormalize == CallNormalize \/ Renormalize

SpecRenormalize == InitNormalize /\ [][NextRenormalize]_vars

(***************************************************************************)
(* read_symbols: the CSV file is a header (csv.DictReader.fieldnames, <<>>  *)
(* for an empty file) and the 'symbol' field of each data row; a row that   *)
(* is too short to have the field yields None.                             *)
(***************************************************************************)
Field(t) == [present |-> TRUE, text |-> t]
MissingField == [present |-> FALSE, text |-> <<>>]

ColSymbol == <<"s","y","m","b","o","l">>
ColName == <<"n","a","m","e">>

Headers == {<<>>, <<ColName>>, <<ColSymbol>>, <<ColName, ColSymbol>>}

RowFields ==
    { Field(<<"7",".","H","K">>), Field(<<" ","h","k",".","7"," ">>),
      Field(<<"A">>), Field(<<"u","s",".","a">>),
      Field(<<"!","!">>), Field(<<>>), Field(<<" "," ">>), MissingField }

RECURSIVE SeqsUpTo(_, _)
SeqsUpTo(S, n) ==
    IF n = 0 THEN {<<>>}
    ELSE LET shorter == SeqsUpTo(S, n - 1)
         IN  shorter \cup {Append(r, x) : r \in {t \in shorter : Len(t) = n - 1}, x \in S}

\* the rows of the documented loading example
ExampleRows ==
    << Field(<<"7","0","0",".","H","K">>), Field(<<"A","A","P","L",".","U","S">>),
       Field(<<"7","0","0",".","H","K">>) >>

RowLists == SeqsUpTo(RowFields, MaxRows) \cup {ExampleRows}

\* (row.get("symbol") or "").strip()
RowRaw(row) == Strip(IF row.present THEN row.text ELSE <<>>)

InitReadSymbols ==
    /\ pc = "open"
    /\ fileExists \in BOOLEAN
    /\ fieldnames \in Headers
    /\ rows \in RowLists
    /\ (~fileExists \/ fieldnames = <<>>) => rows = <<>>
    /\ ~fileExists => fieldnames = <<>>
    /\ idx = 0
    /\ seen = {}
    /\ out = <<>>
    /\ ret = None
    /\ skipped = <<>>
    /\ raw = <<>>
    /\ result = None
    /\ CoerceIdle
    /\ TranslateIdle
    /\ RunIdle

\* if not p.exists(): raise FileNotFoundError
FileNotFound ==
    /\ pc = "open"
    /\ ~fileExists
    /\ pc' = "raised"
    /\ ret' = Raise("FileNotFound")
    /\ UNCHANGED <<coerceVars, translateVars, runVars, raw, result, fileExists, fieldnames, rows, idx, seen, out, skipped>>

\* seen = set(); out = []; open the file
OpenFile ==
    /\ pc = "open"
    /\ fileExists
    /\ seen' = {}
    /\ out' = <<>>
    /\ pc' = "header"
    /\ UNCHANGED <<coerceVars, translateVars, runVars, raw, result, fileExists, fieldnames, rows, idx, ret, skipped>>

\* if "symbol" not in (reader.fieldnames or []): raise ValueError
MissingHeader ==
    /\ pc = "header"
    /\ ColSymbol \notin Range(fieldnames)
    /\ pc' = "raised"
    /\ ret' = Raise("MissingHeader")
    /\ UNCHANGED <<coerceVars, translateVars, runVars, raw, result, fileExists, fieldnames, rows, idx, seen, out, skipped>>

HeaderOk ==
    /\ pc = "header"
    /\ ColSymbol \in Range(fieldnames)
    /\ pc' = "rows"
    /\ UNCHANGED <<coerceVars, translateVars, runVars, raw, result, fileExists, fieldnames, rows, idx, seen, out, ret, skipped>>

\* if not raw: continue
SkipBlankRow ==
    /\ pc = "rows"
    /\ idx < Len(rows)
    /\ raw' = RowRaw(rows[idx + 1])
    /\ raw' = <<>>
    /\ idx' = idx + 1
    /\ UNCHANGED <<coerceVars, translateVars, runVars, result, fileExists, fieldnames, rows, seen, out, ret, skipped, pc>>

SkipInvalidRow_aborts ==
    /\ pc = "rows"
    /\ idx < Len(rows)
    /\ raw' = RowRaw(rows[idx + 1])
    /\ raw' # <<>>
    /\ result' = normalize_symbol(raw')
    /\ result'.kind # "ok"
    /\ pc' = "raised"
    /\ ret' = result'
    /\ UNCHANGED <<coerceVars, translateVars, runVars, fileExists, fieldnames, rows, idx, seen, out, skipped>>

\* except ValueError: print(...); continue
SkipInvalidRow ==
    /\ pc = "rows"
    /\ idx < Len(rows)
    /\ raw' = RowRaw(rows[idx + 1])
    /\ raw' # <<>>
    /\ result' = normalize_symbol(raw')
    /\ result'.kind # "ok"
    /\ skipped' = Append(skipped, raw')
    /\ idx' = idx + 1
    /\ UNCHANGED <<coerceVars, translateVars, runVars, fileExists, fieldnames, rows, seen, out, ret, pc>>

\* if canon not in seen: seen.add(canon); out.append(canon)
AddSymbol ==
    /\ pc = "rows"
    /\ idx < Len(rows)
    /\ raw' = RowRaw(rows[idx + 1])
    /\ raw' # <<>>
    /\ result' = normalize_symbol(raw')
    /\ result'.kind = "ok"
    /\ result'.val \notin seen
    /\ seen' = seen \cup {result'.val}
    /\ out' = Append(out, result'.val)
    /\ idx' = idx + 1
    /\ UNCHANGED <<coerceVars, translateVars, runVars, fileExists, fieldnames, rows, ret, skipped, pc>>

DuplicateSymbol_appended ==
    /\ pc = "rows"
    /\ idx < Len(rows)
    /\ raw' = RowRaw(rows[idx + 1])
    /\ raw' # <<>>
    /\ result' = normalize_symbol(raw')
    /\ result'.kind = "ok"
    /\ result'.val \in seen
    /\ out' = Append(out, result'.val)
    /\ idx' = idx + 1
    /\ UNCHANGED <<coerceVars, translateVars, runVars, fileExists, fieldnames, rows, seen, ret, skipped, pc>>

\* canon in seen: the row adds nothing
DuplicateSymbol ==
    /\ pc = "rows"
    /\ idx < Len(rows)
    /\ raw' = RowRaw(rows[idx + 1])
    /\ raw' # <<>>
    /\ result' = normalize_symbol(raw')
    /\ result'.kind = "ok"
    /\ result'.val \in seen
    /\ idx' = idx + 1
    /\ UNCHANGED <<coerceVars, translateVars, runVars, fileExists, fieldnames, rows, seen, out, ret, skipped, pc>>

NoValidSymbols_returns ==
    /\ pc = "rows"
    /\ idx = Len(rows)
    /\ out = <<>>
    /\ pc' = "returned_list"
    /\ ret' = Ok(out)
    /\ UNCHANGED <<coerceVars, translateVars, runVars, raw, result, fileExists, fieldnames, rows, idx, seen, out, skipped>>

\* if not out: raise ValueError("No valid symbols in CSV")
NoValidSymbols ==
    /\ pc = "rows"
    /\ idx = Len(rows)
    /\ out = <<>>
    /\ pc' = "raised"
    /\ ret' = Raise("NoValidSymbols")
    /\ UNCHANGED <<coerceVars, translateVars, runVars, raw, result, fileExists, fieldnames, rows, idx, seen, out, skipped>>

\* return out
ReturnSymbols ==
    /\ pc = "rows"
    /\ idx = Len(rows)
    /\ out # <<>>
    /\ pc' = "returned_list"
    /\ ret' = Ok(out)
    /\ UNCHANGED <<coerceVars, translateVars, runVars, raw, result, fileExists, fieldnames, rows, idx, seen, out, skipped>>

Next ==
    \/ FileNotFound
    \/ OpenFile
    \/ MissingHeader
    \/ HeaderOk
    \/ SkipBlankRow
    \/ SkipInvalidRow
    \/ AddSymbol
    \/ DuplicateSymbol
    \/ NoValidSymbols
    \/ ReturnSymbols

Init == InitReadSymbols

Spec == Init /\ [][Next]_vars

(***************************************************************************)
(* format_response.py: force_to_dict, steps 1-4 (text rewriting)           *)
(***************************************************************************)
Quote == "\""
Backslash == "\\"

\* \w and \s of the re module
IsWordChar(c) == IsLetter(c) \/ IsDigit(c) \/ c = "_"

\* s.replace(r'\"', '"')
RECURSIVE UnescapeQuotes(_)
UnescapeQuotes(s) ==
    LET hits == {j \in 1..(Len(s) - 1) : s[j] = Backslash /\ s[j + 1] = Quote}
    IN  IF hits = {} THEN s
        ELSE Take(s, Min(hits) - 1) \o <<Quote>> \o UnescapeQuotes(Drop(s, Min(hits) + 1))

\* the first position >= i of s that does not satisfy the class (Len(s)+1 if none)
SkipWord(s, i) == Min({j \in i..Len(s) : ~IsWordChar(s[j])} \cup {Len(s) + 1})
SkipSpace(s, i) == Min({j \in i..Len(s) : ~IsSpace(s[j])} \cup {Len(s) + 1})

\* re.sub(r'(\b\w+\b)\s*:', r'"\1":', s), scanning from position i.  The
\* pattern can only match a maximal run of word characters, followed by
\* optional whitespace and a colon.
RECURSIVE QuoteKeysFrom(_, _)
QuoteKeysFrom(s, i) ==
    LET w == Min({j \in i..Len(s) : IsWordChar(s[j])} \cup {Len(s) + 1})
        j == SkipWord(s, w)
        k == SkipSpace(s, j)
    IN  IF w > Len(s) THEN SubSeq(s, i, Len(s))
        ELSE IF k <= Len(s) /\ s[k] = ":"
             THEN SubSeq(s, i, w - 1) \o <<Quote>> \o SubSeq(s, w, j - 1) \o <<Quote, ":">>
                  \o QuoteKeysFrom(s, k + 1)
        ELSE SubSeq(s, i, j - 1) \o QuoteKeysFrom(s, j)

QuoteKeys(s) == QuoteKeysFrom(s, 1)

\* inner.split(','): the pieces of s between commas
RECURSIVE SplitComma(_)
SplitComma(s) ==
    IF \A i \in DOMAIN s : s[i] # ","
    THEN <<s>>
    ELSE LET c == CHOOSE i \in DOMAIN s : s[i] = "," /\ \A j \in 1..(i - 1) : s[j] # ","
         IN  <<Take(s, c - 1)>> \o SplitComma(Drop(s, c))

\* [x.strip() for x in inner.split(',') if x.strip() != '']
RECURSIVE StripNonEmpty(_)
StripNonEmpty(parts) ==
    IF parts = <<>> THEN <<>>
    ELSE IF Strip(Head(parts)) = <<>> THEN StripNonEmpty(Tail(parts))
    ELSE <<Strip(Head(parts))>> \o StripNonEmpty(Tail(parts))

\* re.fullmatch(r'"[^" ]*"', x)
IsQuotedItem(x) ==
    /\ Len(x) >= 2
    /\ x[1] = Quote /\ x[Len(x)] = Quote
    /\ \A i \in 2..(Len(x) - 1) : x[i] # Quote /\ x[i] # " "

\* \d+ at position i: the position after the digits, 0 when there is no digit
SkipDigits(s, i) == Min({j \in i..Len(s) : ~IsDigit(s[j])} \cup {Len(s) + 1})
DigitsEnd(s, i) == IF i <= Len(s) /\ IsDigit(s[i]) THEN SkipDigits(s, i) ELSE 0

\* re.fullmatch(r'[+-]?\d+(\.\d+)?([eE][+-]?\d+)?', x)
IsNumericItem(x) ==
    LET a == IF x # <<>> /\ x[1] \in {"+", "-"} THEN 2 ELSE 1
        b == DigitsEnd(x, a)
        f == IF b # 0 /\ b <= Len(x) /\ x[b] = "." THEN DigitsEnd(x, b + 1) ELSE 0
        c == IF f # 0 THEN f ELSE b
        g == IF c # 0 /\ c <= Len(x) /\ x[c] \in {"e", "E"}
             THEN DigitsEnd(x, IF c + 1 <= Len(x) /\ x[c + 1] \in {"+", "-"} THEN c + 2 ELSE c + 1)
             ELSE 0
    IN  b # 0 /\ (b = Len(x) + 1 \/ f = Len(x) + 1 \/ g = Len(x) + 1)

LitTrue == <<"t","r","u","e">>
LitFalse == <<"f","a","l","s","e">>
LitNull == <<"n","u","l","l">>

\* x.lower() in ('true', 'false', 'null')
IsLiteralItem(x) == Lower(x) \in {LitTrue, LitFalse, LitNull}

\* the body of the loop of quote_list_items
FixItem(x) ==
    IF IsQuotedItem(x) \/ IsNumericItem(x) \/ IsLiteralItem(x) THEN x
    ELSE <<Quote>> \o x \o <<Quote>>

\* ', '.join(fixed)
RECURSIVE JoinFixed(_)
JoinFixed(items) ==
    IF items = <<>> THEN <<>>
    ELSE IF Len(items) = 1 THEN FixItem(items[1])
    ELSE FixItem(items[1]) \o <<",", " ">> \o JoinFixed(Tail(items))

\* quote_list_items(m) for m.group(1) = inner
quote_list_items(inner) ==
    <<":", " ", "[">> \o JoinFixed(StripNonEmpty(SplitComma(inner))) \o <<"]">>

\* the position of the first ']' at or after i, 0 if there is none
FindClose(s, i) == Min({j \in i..Len(s) : s[j] = "]"} \cup {Len(s) + 1}) % (Len(s) + 1)

\* the position of the first ':' at or after i, Len(s) + 1 if there is none
NextColon(s, i) == Min({j \in i..Len(s) : s[j] = ":"} \cup {Len(s) + 1})

\* re.sub(r':\s*\[([^\]]*)\]', quote_list_items, s), scanning from position i
RECURSIVE QuoteListsFrom(_, _)
QuoteListsFrom(s, i) ==
    LET c == NextColon(s, i)
        k == SkipSpace(s, c + 1)
        e == IF k <= Len(s) /\ s[k] = "[" THEN FindClose(s, k + 1) ELSE 0
    IN  IF c > Len(s) THEN SubSeq(s, i, Len(s))
        ELSE IF e # 0
             THEN SubSeq(s, i, c - 1) \o quote_list_items(SubSeq(s, k + 1, e - 1))
                  \o QuoteListsFrom(s, e + 1)
        ELSE SubSeq(s, i, c) \o QuoteListsFrom(s, c + 1)

QuoteLists(s) == QuoteListsFrom(s, 1)

\* \btrue\b (or false, null) at position i, which is the start of a word
IsLiteralAt(s, i, lit) ==
    /\ i + Len(lit) - 1 <= Len(s)
    /\ SubSeq(s, i, i + Len(lit) - 1) = lit
    /\ (i + Len(lit) > Len(s) \/ ~IsWordChar(s[i + Len(lit)]))

\* [A-Za-z_] and [A-Za-z0-9_.-]
IsValueStart(c) == IsLetter(c) \/ c = "_"
IsValueChar(c) == IsLetter(c) \/ IsDigit(c) \/ c \in {"_", ".", "-"}

SkipValue(s, i) == Min({j \in i..Len(s) : ~IsValueChar(s[j])} \cup {Len(s) + 1})

\* re.sub(r':\s*(?!\[|\{|"|[+-]?\d|\btrue\b|\bfalse\b|\bnull\b)([A-Za-z_][A-Za-z0-9_.-]*)',
\*        r': "\1"', s), scanning from position i.  The group needs a letter or
\* '_' right after the whitespace, so of the look-ahead only the three
\* literals can veto a match.
RECURSIVE QuoteValuesFrom(_, _)
QuoteValuesFrom(s, i) ==
    LET c == NextColon(s, i)
        k == SkipSpace(s, c + 1)
        e == SkipValue(s, k)
    IN  IF c > Len(s) THEN SubSeq(s, i, Len(s))
        ELSE IF /\ k <= Len(s)
                /\ IsValueStart(s[k])
                /\ ~IsLiteralAt(s, k, LitTrue)
                /\ ~IsLiteralAt(s, k, LitFalse)
                /\ ~IsLiteralAt(s, k, LitNull)
             THEN SubSeq(s, i, c - 1) \o <<":", " ", Quote>> \o SubSeq(s, k, e - 1) \o <<Quote>>
                  \o QuoteValuesFrom(s, e)
        ELSE SubSeq(s, i, c) \o QuoteValuesFrom(s, c + 1)

QuoteValues(s) == QuoteValuesFrom(s, 1)

\* steps 1-4 of force_to_dict: the text handed to json.loads
Repair(txt) == QuoteValues(QuoteLists(QuoteKeys(UnescapeQuotes(Strip(txt)))))

(***************************************************************************)
(* json.loads.  A parsed value is a pair <<tag, payload>>: a string holds  *)
(* its characters, a number the text of its literal, a list the sequence   *)
(* of its items, and an object (dict) the sequence of its <<key, value>>   *)
(* pairs in insertion order, one pair per key.                             *)
(***************************************************************************)
Tag(x) == x[1]
Val(x) == x[2]

JStr(x) == <<"str", x>>
JNum(x) == <<"num", x>>
JBool(b) == <<"bool", b>>
JNull == <<"null", <<>> >>
JList(x) == <<"list", x>>
JObj(x) == <<"obj", x>>

Parsed(val, next) == [ok |-> TRUE, val |-> val, pos |-> next]
ParseError == [ok |-> FALSE, val |-> JNull, pos |-> 0]

HexChars == Range(DigitChars) \cup {"a","b","c","d","e","f","A","B","C","D","E","F"}

\* the character an escape sequence \e stands for; \b and \f, which have no
\* notation here, are kept as the symbolic characters "\\b" and "\\f"
Unescaped(e) ==
    CASE e = "n" -> "\n"
      [] e = "t" -> "\t"
      [] e = "r" -> "\r"
      [] e = "b" -> "\\b"
      [] e = "f" -> "\\f"
      [] OTHER -> e

\* json.decoder.py_scanstring (strict): s[i] is the character after the
\* opening quote; acc is the text decoded so far
RECURSIVE ScanString(_, _, _)
ScanString(s, i, acc) ==
    LET p == Min({j \in i..Len(s) : s[j] \in {Quote, Backslash, "\t", "\n", "\r"}} \cup {Len(s) + 1})
        plain == acc \o SubSeq(s, i, p - 1)
    IN  IF p > Len(s) THEN ParseError
        ELSE IF s[p] = Quote THEN Parsed(plain, p + 1)
        ELSE IF s[p] \in {"\t", "\n", "\r"} THEN ParseError
        ELSE IF p + 1 > Len(s) THEN ParseError
        ELSE IF s[p + 1] \in {Quote, Backslash, "/", "b", "f", "n", "r", "t"}
             THEN ScanString(s, p + 2, Append(plain, Unescaped(s[p + 1])))
        ELSE IF s[p + 1] = "u" /\ p + 5 <= Len(s)
                /\ \A j \in (p + 2)..(p + 5) : s[j] \in HexChars
             THEN ScanString(s, p + 6,
                      Append(plain, "\\u" \o s[p + 2] \o s[p + 3] \o s[p + 4] \o s[p + 5]))
        ELSE ParseError

\* json.scanner.NUMBER_RE, (-?(?:0|[1-9]\d*))(\.\d+)?([eE][-+]?\d+)? matched
\* at position i: the position after the match, 0 when there is none
NumberEnd(s, i) ==
    LET a == IF i <= Len(s) /\ s[i] = "-" THEN i + 1 ELSE i
        b == IF a <= Len(s) /\ s[a] = "0" THEN a + 1 ELSE DigitsEnd(s, a)
        f == IF b # 0 /\ b <= Len(s) /\ s[b] = "." THEN DigitsEnd(s, b + 1) ELSE 0
        c == IF f # 0 THEN f ELSE b
        g == IF c # 0 /\ c <= Len(s) /\ s[c] \in {"e", "E"}
             THEN DigitsEnd(s, IF c + 1 <= Len(s) /\ s[c + 1] \in {"+", "-"} THEN c + 2 ELSE c + 1)
             ELSE 0
    IN  IF g # 0 THEN g ELSE c

HasAt(s, i, w) == i + Len(w) - 1 <= Len(s) /\ SubSeq(s, i, i + Len(w) - 1) = w

ConstNaN == <<"N","a","N">>
ConstInfinity == <<"I","n","f","i","n","i","t","y">>

\* d[key] = val on a dict: a present key keeps its place and takes the new value
SetKey(pairs, key, val) ==
    IF \E j \in DOMAIN pairs : pairs[j][1] = key
    THEN [j \in DOMAIN pairs |-> IF pairs[j][1] = key THEN <<key, val>> ELSE pairs[j]]
    ELSE Append(pairs, <<key, val>>)

RECURSIVE ParseValue(_, _)
RECURSIVE ParseMembers(_, _, _)
RECURSIVE ParseElements(_, _, _)

\* json.scanner.py_make_scanner._scan_once at position i
ParseValue(s, i) ==
    IF i > Len(s) THEN ParseError
    ELSE IF s[i] = Quote
         THEN LET r == ScanString(s, i + 1, <<>>)
              IN  IF r.ok THEN Parsed(JStr(r.val), r.pos) ELSE ParseError
    ELSE IF s[i] = "{"
         THEN LET k == SkipSpace(s, i + 1)
              IN  IF k <= Len(s) /\ s[k] = "}" THEN Parsed(JObj(<<>>), k + 1)
                  ELSE ParseMembers(s, k, <<>>)
    ELSE IF s[i] = "["
         THEN LET k == SkipSpace(s, i + 1)
              IN  IF k <= Len(s) /\ s[k] = "]" THEN Parsed(JList(<<>>), k + 1)
                  ELSE ParseElements(s, k, <<>>)
    ELSE IF HasAt(s, i, LitNull) THEN Parsed(JNull, i + 4)
    ELSE IF HasAt(s, i, LitTrue) THEN Parsed(JBool(TRUE), i + 4)
    ELSE IF HasAt(s, i, LitFalse) THEN Parsed(JBool(FALSE), i + 5)
    ELSE IF NumberEnd(s, i) # 0 THEN Parsed(JNum(SubSeq(s, i, NumberEnd(s, i) - 1)), NumberEnd(s, i))
    ELSE IF HasAt(s, i, ConstNaN) THEN Parsed(JNum(ConstNaN), i + 3)
    ELSE IF HasAt(s, i, ConstInfinity) THEN Parsed(JNum(ConstInfinity), i + 8)
    ELSE IF HasAt(s, i, <<"-">> \o ConstInfinity) THEN Parsed(JNum(<<"-">> \o ConstInfinity), i + 9)
    ELSE ParseError

\* json.decoder.JSONObject: the pairs of an object, s[i] being where the
\* next key must start
ParseMembers(s, i, acc) ==
    IF i > Len(s) \/ s[i] # Quote THEN ParseError
    ELSE LET key == ScanString(s, i + 1, <<>>)
             k == SkipSpace(s, key.pos)
             val == ParseValue(s, SkipSpace(s, k + 1))
             e == SkipSpace(s, val.pos)
         IN  IF ~key.ok \/ k > Len(s) \/ s[k] # ":" THEN ParseError
             ELSE IF ~val.ok \/ e > Len(s) THEN ParseError
             ELSE IF s[e] = "}" THEN Parsed(JObj(SetKey(acc, key.val, val.val)), e + 1)
             ELSE IF s[e] = ","
                  THEN ParseMembers(s, SkipSpace(s, e + 1), SetKey(acc, key.val, val.val))
             ELSE ParseError

\* json.decoder.JSONArray: the items of a list, s[i] being where the next
\* item must start
ParseElements(s, i, acc) ==
    LET val == ParseValue(s, i)
        e == SkipSpace(s, val.pos)
    IN  IF ~val.ok \/ e > Len(s) THEN ParseError
        ELSE IF s[e] = "]" THEN Parsed(JList(Append(acc, val.val)), e + 1)
        ELSE IF s[e] = "," THEN ParseElements(s, SkipSpace(s, e + 1), Append(acc, val.val))
        ELSE ParseError

\* json.loads(s): one value, surrounded by whitespace only
json_loads(s) ==
    LET r == ParseValue(s, SkipSpace(s, 1))
    IN  IF r.ok /\ SkipSpace(s, r.pos) = Len(s) + 1
        THEN [kind |-> "ok", val |-> r.val]
        ELSE [kind |-> "JSONDecodeError", val |-> JNull]

force_to_dict(txt) == json_loads(Repair(txt))

(***************************************************************************)
(* format_response.py: KEY_MAP and translate_keys.  A character outside    *)
(* ASCII is written as its code point.                                     *)
(***************************************************************************)
\* a table in which the label of 'symbol' is itself a key
KEY_MAP_label_is_key ==
    << << <<"s","y","m","b","o","l">>, <<"e","p","s">> >>,
       << <<"e","p","s">>, <<"U+6BCF","U+80A1","U+76C8","U+5229">> >> >>

KEY_MAP ==
    << << <<"s","e","c","u","_","s","t","a","t","i","c","_","i","n","f","o">>,
          <<"U+6807","U+7684","U+57FA","U+7840","U+6570","U+636E","U+5217","U+8868">> >>,
       << <<"s","y","m","b","o","l">>,
          <<"U+6807","U+7684","U+4EE3","U+7801">> >>,
       << <<"n","a","m","e","_","c","n">>,
          <<"U+4E2D","U+6587","U+7B80","U+4F53","U+6807","U+7684","U+540D","U+79F0">> >>,
       << <<"n","a","m","e","_","e","n">>,
          <<"U+82F1","U+6587","U+6807","U+7684","U+540D","U+79F0">> >>,
       << <<"n","a","m","e","_","h","k">>,
          <<"U+4E2D","U+6587","U+7E41","U+4F53","U+6807","U+7684","U+540D","U+79F0">> >>,
       << <<"e","x","c","h","a","n","g","e">>,
          <<"U+6807","U+7684","U+6240","U+5C5E","U+4EA4","U+6613","U+6240">> >>,
       << <<"c","u","r","r","e","n","c","y">>,
          <<"U+4EA4","U+6613","U+5E01","U+79CD">> >>,
       << <<"l","o","t","_","s","i","z","e">>,
          <<"U+6BCF","U+624B","U+80A1","U+6570">> >>,
       << <<"t","o","t","a","l","_","s","h","a","r","e","s">>,
          <<"U+603B","U+80A1","U+672C">> >>,
       << <<"c","i","r","c","u","l","a","t","i","n","g","_","s","h","a","r","e","s">>,
          <<"U+6D41","U+901A","U+80A1","U+672C">> >>,
       << <<"h","k","_","s","h","a","r","e","s">>,
          <<"U+6E2F","U+80A1","U+80A1","U+672C"," ","(","U+4EC5","U+6E2F","U+80A1",")">> >>,
       << <<"e","p","s">>,
          <<"U+6BCF","U+80A1","U+76C8","U+5229">> >>,
       << <<"e","p","s","_","t","t","m">>,
          <<"U+6BCF","U+80A1","U+76C8","U+5229"," ","(","T","T","M",")">> >>,
       << <<"b","p","s">>,
          <<"U+6BCF","U+80A1","U+51C0","U+8D44","U+4EA7">> >>,
       << <<"d","i","v","i","d","e","n","d","_","y","i","e","l","d">>,
          <<"U+80A1","U+606F">> >>,
       << <<"s","t","o","c","k","_","d","e","r","i","v","a","t","i","v","e","s">>,
          <<"U+53EF","U+63D0","U+4F9B","U+7684","U+884D","U+751F","U+54C1","U+884C","U+60C5","U+7C7B","U+578B">> >>,
       << <<"b","o","a","r","d">>,
          <<"U+6807","U+7684","U+6240","U+5C5E","U+677F","U+5757">> >> >>

InKeyMap(k) == \E i \in DOMAIN KEY_MAP : KEY_MAP[i][1] = k

\* KEY_MAP.get(k, k)
KeyLabel(k) ==
    IF InKeyMap(k) THEN KEY_MAP[CHOOSE i \in DOMAIN KEY_MAP : KEY_MAP[i][1] = k][2] ELSE k

RECURSIVE translate_keys(_)
RECURSIVE TranslateItems(_)
RECURSIVE TranslatePairs(_, _)

\* [translate_keys(item) for item in data]
TranslateItems(items) ==
    IF items = <<>> THEN <<>>
    ELSE <<translate_keys(Head(items))>> \o TranslateItems(Tail(items))

\* the loop over data.items(), new_dict being acc
TranslatePairs(pairs, acc) ==
    IF pairs = <<>> THEN acc
    ELSE LET k == Head(pairs)[1]
             v == Head(pairs)[2]
             nv == IF Tag(v) \in {"obj", "list"} THEN translate_keys(v) ELSE v
         IN  TranslatePairs(Tail(pairs), SetKey(acc, KeyLabel(k), nv))

translate_keys(x) ==
    IF Tag(x) = "list" THEN JList(TranslateItems(Val(x)))
    ELSE IF Tag(x) = "obj" THEN JObj(TranslatePairs(Val(x), <<>>))
    ELSE x

(***************************************************************************)
(* getStockDetails, up to the call of force_to_dict.  A response object of *)
(* the quote API is a tree: bare words, quoted strings, numbers, literals, *)
(* lists and records; str() prints it with unquoted keys.                  *)
(***************************************************************************)
SWord(x) == <<"word", x>>
SStr(x) == <<"str", x>>
SNum(x) == <<"num", x>>
SLit(x) == <<"lit", x>>
SList(x) == <<"list", x>>
SObj(x) == <<"obj", x>>

TypeName == <<"S","e","c","u","r","i","t","y","S","t","a","t","i","c","I","n","f","o"," ">>

RECURSIVE PrintValue(_)
RECURSIVE PrintItems(_)
RECURSIVE PrintFields(_)

\* the debug print of a value
PrintValue(x) ==
    CASE Tag(x) = "str" -> <<Quote>> \o Val(x) \o <<Quote>>
      [] Tag(x) = "list" -> <<"[">> \o PrintItems(Val(x)) \o <<"]">>
      [] Tag(x) = "obj" -> <<"{">> \o PrintFields(Val(x)) \o <<"}">>
      [] OTHER -> Val(x)

PrintItems(l) ==
    IF l = <<>> THEN <<>>
    ELSE IF Len(l) = 1 THEN PrintValue(l[1])
    ELSE PrintValue(l[1]) \o <<",", " ">> \o PrintItems(Tail(l))

PrintFields(l) ==
    IF l = <<>> THEN <<>>
    ELSE IF Len(l) = 1 THEN l[1][1] \o <<":", " ">> \o PrintValue(l[1][2])
    ELSE l[1][1] \o <<":", " ">> \o PrintValue(l[1][2]) \o <<",", " ">> \o PrintFields(Tail(l))

\* str(stock): a record is printed after its type name
StrOf(x) == IF Tag(x) = "obj" THEN TypeName \o PrintValue(x) ELSE PrintValue(x)

\* s.replace(old, ""), old not empty
RECURSIVE Remove(_, _)
Remove(s, old) ==
    LET hits == {j \in 1..(Len(s) - Len(old) + 1) : SubSeq(s, j, j + Len(old) - 1) = old}
    IN  IF hits = {} THEN s
        ELSE Take(s, Min(hits) - 1) \o Remove(Drop(s, Min(hits) + Len(old) - 1), old)

KeySymbol == ColSymbol
KeyBoard == <<"b","o","a","r","d">>
KeyEps == <<"e","p","s">>
KeyActive == <<"a","c","t","i","v","e">>
KeyName == ColName
KeyInfo == <<"i","n","f","o">>

Warrant == SWord(<<"W","a","r","r","a","n","t">>)
ABC == SWord(<<"A","B","C">>)

Scalars ==
    { Warrant, SWord(<<"7",".","H","K">>), SNum(<<"3",".","6">>), SNum(<<"7">>),
      SLit(LitTrue), SLit(<<"T","r","u","e">>), SLit(LitNull),
      SStr(<<"q">>), SStr(<<"A"," ","B">>), SStr(<<"T",","," ","I">>), SStr(<<"a",":","b">>) }

ListItems ==
    { Warrant, ABC, SWord(<<"7",".","H","K">>), SNum(<<"3",".","6">>), SNum(<<"1","e","3">>),
      SLit(LitTrue), SLit(<<"T","r","u","e">>),
      SStr(<<"q">>), SStr(<<"A"," ","B">>), SStr(<<"T",","," ","I">>) }

Lists == {SList(l) : l \in SeqsUpTo(ListItems, MaxItems)}

\* the two records of the documented coercion examples
ExampleStock ==
    SObj(<< <<KeySymbol, SWord(<<"7","0","0",".","H","K">>)>>,
            <<KeyBoard, SList(<<Warrant, ABC>>)>>,
            <<KeyEps, SNum(<<"3",".","6">>)>>,
            <<KeyActive, SLit(LitTrue)>> >>)
ExampleQuoted ==
    SObj(<< <<KeyName, SStr(<<"T","e","n","c","e","n","t",","," ","I","n","c">>)>> >>)

Stocks ==
    {SObj(<< <<KeySymbol, x>> >>) : x \in Scalars}
    \cup {SObj(<< <<KeyBoard, l>> >>) : l \in Lists}
    \cup {SObj(<< <<KeySymbol, x>>, <<KeyEps, y>> >>) : x \in Scalars, y \in Scalars}
    \cup {SObj(<< <<KeyInfo, SObj(<< <<KeySymbol, x>> >>)>> >>) : x \in Scalars}
    \cup {SObj(<< <<KeyBoard, SList(<<SList(<<x>>)>>)>> >>) : x \in ListItems}
    \cup {l \in Lists : Len(Val(l)) <= 1}
    \cup {SObj(<< <<KeyName, x>> >>) : x \in Scalars \cup Lists}
    \cup {SObj(<< <<KeyInfo, SObj(<< <<KeyName, x>> >>)>> >>) : x \in Scalars}
    \cup {SObj(<<>>), ExampleStock, ExampleQuoted}

InitCoerce ==
    /\ pc = "stock"
    /\ stock \in Stocks
    /\ text = <<>>
    /\ parsed = None
    /\ raw = <<>>
    /\ result = None
    /\ CsvIdle
    /\ TranslateIdle
    /\ RunIdle

\* raw = str(stock).replace("SecurityStaticInfo ", "")
PrintStock ==
    /\ pc = "stock"
    /\ text' = Remove(StrOf(stock), TypeName)
    /\ pc' = "printed"
    /\ UNCHANGED <<raw, result, csvVars, stock, parsed, translateVars, runVars>>

\* resp_formated = force_to_dict(raw)
ForceToDict ==
    /\ pc = "printed"
    /\ parsed' = force_to_dict(text)
    /\ pc' = "coerced"
    /\ UNCHANGED <<raw, result, csvVars, stock, text, translateVars, runVars>>

\* resp_formated = translate_keys(resp_formated); temp.append(resp_formated).
\* An exception of force_to_dict leaves getStockDetails before this line.
TranslateKeys ==
    /\ pc = "coerced"
    /\ parsed.kind = "ok"
    /\ translated' = translate_keys(parsed.val)
    /\ pc' = "translated"
    /\ UNCHANGED <<raw, result, csvVars, coerceVars, data, retranslated, runVars>>

NextCoerce == PrintStock \/ ForceToDict \/ TranslateKeys

SpecCoerce == InitCoerce /\ [][NextCoerce]_vars

(***************************************************************************)
(* translate_keys applied to a value, and then to its own result.          *)
(***************************************************************************)
LabelSymbol == KeyLabel(KeySymbol)

\* two keys of KEY_MAP, a key outside it, and a key spelled like a label
TranslateKeyNames == {KeySymbol, KeyEps, KeyName, LabelSymbol}

Leaves == {JStr(<<"x">>), JNum(<<"7">>), JNull}

DistinctKeys(pairs) ==
    \A i, j \in DOMAIN pairs : pairs[i][1] = pairs[j][1] => i = j

DictsOver(values) ==
    {JObj(ps) : ps \in {q \in SeqsUpTo(TranslateKeyNames \X values, MaxKeys) : DistinctKeys(q)}}

ListsOver(values) == {JList(l) : l \in SeqsUpTo(values, MaxItems)}

FlatValues == Leaves \cup DictsOver(Leaves) \cup ListsOver(Leaves)

SingleKeyDicts == {JObj(<< <<k, v>> >>) : k \in TranslateKeyNames, v \in Leaves}

TranslateInputs ==
    FlatValues
    \cup {JObj(<< <<k, v>> >>) : k \in TranslateKeyNames, v \in FlatValues}
    \cup {JList(<<v>>) : v \in FlatValues}
    \cup {JList(<<a, b>>) : a \in SingleKeyDicts, b \in SingleKeyDicts}

InitTranslate ==
    /\ pc = "value"
    /\ data \in TranslateInputs
    /\ translated = NoStock
    /\ retranslated = NoStock
    /\ raw = <<>>
    /\ result = None
    /\ CsvIdle
    /\ CoerceIdle
    /\ RunIdle

\* translate_keys(data): new containers are built, data itself is left alone
Relabel ==
    /\ pc = "value"
    /\ translated' = translate_keys(data)
    /\ pc' = "relabeled"
    /\ UNCHANGED <<raw, result, csvVars, coerceVars, data, retranslated, runVars>>

\* translate_keys(translate_keys(data))
RelabelAgain ==
    /\ pc = "relabeled"
    /\ retranslated' = translate_keys(translated)
    /\ pc' = "relabeled_twice"
    /\ UNCHANGED <<raw, result, csvVars, coerceVars, data, translated, runVars>>

NextTranslate == Relabel \/ RelabelAgain

SpecTranslate == InitTranslate /\ [][NextTranslate]_vars

(***************************************************************************)
(* The entry points and their requests to external services:               *)
(* realtime_analysis.main, realtime_quotes.main and the command line of    *)
(* deepseek_analysis.  marketCalls counts the requests sent to the quote   *)
(* service, llmCalls the chat completion requests.                         *)
(***************************************************************************)
RealtimeAnalysis == "realtime_analysis"
RealtimeQuotes == "realtime_quotes"
DeepseekAnalysis == "deepseek_analysis"

EntryPoints == {RealtimeAnalysis, RealtimeQuotes, DeepseekAnalysis}

otherVars == <<raw, result, csvVars, coerceVars, translateVars>>

InitRun ==
    /\ pc = "run_start"
    /\ entry \in EntryPoints
    /\ apiKey \in BOOLEAN
    /\ creds \in BOOLEAN
    /\ nSymbols \in 0..MaxSymbols
    /\ nQuotes = 0
    /\ qidx = 0
    /\ marketCalls = 0
    /\ llmCalls = 0
    /\ ticks = 0
    /\ interrupted = FALSE
    /\ raw = <<>>
    /\ result = None
    /\ CsvIdle
    /\ CoerceIdle
    /\ TranslateIdle

\* realtime_analysis: read_symbols raises, no list comes back
RA_ReadSymbolsFails ==
    /\ pc = "run_start" /\ entry = RealtimeAnalysis
    /\ nSymbols = 0
    /\ pc' = "run_failed"
    /\ UNCHANGED <<otherVars, runVars>>

\* symbols = read_symbols(symbols_csv)
RA_ReadSymbols ==
    /\ pc = "run_start" /\ entry = RealtimeAnalysis
    /\ nSymbols > 0
    /\ pc' = "run_symbols"
    /\ UNCHANGED <<otherVars, runVars>>

\* quotes = ctx.quote(symbols): one request, any number of quotes comes back
RA_Quote ==
    /\ pc = "run_symbols" /\ entry = RealtimeAnalysis
    /\ marketCalls' = marketCalls + 1
    /\ \E n \in 0..MaxQuotes : nQuotes' = n
    /\ qidx' = 0
    /\ pc' = "run_loop"
    /\ UNCHANGED <<otherVars, entry, apiKey, creds, nSymbols, llmCalls, ticks, interrupted>>

\* ctx.quote(symbols) raises
RA_QuoteFails ==
    /\ pc = "run_symbols" /\ entry = RealtimeAnalysis
    /\ marketCalls' = marketCalls + 1
    /\ pc' = "run_failed"
    /\ UNCHANGED <<otherVars, entry, apiKey, creds, nSymbols, nQuotes, qidx, llmCalls, ticks,
                   interrupted>>

\* analyze_quote without DEEPSEEK_API_KEY raises ValueError before any request
RA_NoApiKey ==
    /\ pc = "run_loop" /\ entry = RealtimeAnalysis
    /\ qidx < nQuotes
    /\ ~apiKey
    /\ pc' = "run_failed"
    /\ UNCHANGED <<otherVars, runVars>>

\* a loop that sends two chat completions for one quote
RA_Analyze_twice ==
    /\ pc = "run_loop" /\ entry = RealtimeAnalysis
    /\ qidx < nQuotes
    /\ apiKey
    /\ llmCalls' = llmCalls + 2
    /\ qidx' = qidx + 1
    /\ UNCHANGED <<otherVars, pc, entry, apiKey, creds, nSymbols, nQuotes, marketCalls, ticks,
                   interrupted>>

\* one turn of the loop over quotes: analyze_quote sends one chat completion
RA_Analyze ==
    /\ pc = "run_loop" /\ entry = RealtimeAnalysis
    /\ qidx < nQuotes
    /\ apiKey
    /\ llmCalls' = llmCalls + 1
    /\ qidx' = qidx + 1
    /\ UNCHANGED <<otherVars, pc, entry, apiKey, creds, nSymbols, nQuotes, marketCalls, ticks,
                   interrupted>>

\* the chat completion request raises; nothing in main catches it
RA_AnalyzeFails ==
    /\ pc = "run_loop" /\ entry = RealtimeAnalysis
    /\ qidx < nQuotes
    /\ apiKey
    /\ llmCalls' = llmCalls + 1
    /\ pc' = "run_failed"
    /\ UNCHANGED <<otherVars, entry, apiKey, creds, nSymbols, nQuotes, qidx, marketCalls, ticks,
                   interrupted>>

\* after the loop: the text file, index.csv and the console output
RA_WriteOutput ==
    /\ pc = "run_loop" /\ entry = RealtimeAnalysis
    /\ qidx = nQuotes
    /\ pc' = "run_done"
    /\ UNCHANGED <<otherVars, runVars>>

\* realtime_quotes: one of the three LONGPORT_ variables is missing
RQ_MissingCredentials ==
    /\ pc = "run_start" /\ entry = RealtimeQuotes
    /\ ~creds
    /\ pc' = "run_failed"
    /\ UNCHANGED <<otherVars, runVars>>

\* SYMBOLS holds no symbol
RQ_NoSymbols ==
    /\ pc = "run_start" /\ entry = RealtimeQuotes
    /\ creds
    /\ nSymbols = 0
    /\ pc' = "run_failed"
    /\ UNCHANGED <<otherVars, runVars>>

\* ctx.subscribe(symbols, SubType.Quote, is_first_push=True)
RQ_Subscribe ==
    /\ pc = "run_start" /\ entry = RealtimeQuotes
    /\ creds
    /\ nSymbols > 0
    /\ marketCalls' = marketCalls + 1
    /\ pc' = "run_listening"
    /\ UNCHANGED <<otherVars, entry, apiKey, creds, nSymbols, nQuotes, qidx, llmCalls, ticks,
                   interrupted>>

\* ctx.subscribe raises
RQ_SubscribeFails ==
    /\ pc = "run_start" /\ entry = RealtimeQuotes
    /\ creds
    /\ nSymbols > 0
    /\ marketCalls' = marketCalls + 1
    /\ pc' = "run_failed"
    /\ UNCHANGED <<otherVars, entry, apiKey, creds, nSymbols, nQuotes, qidx, llmCalls, ticks,
                   interrupted>>

\* while True: time.sleep(1)
RQ_Sleep ==
    /\ pc = "run_listening" /\ entry = RealtimeQuotes
    /\ ticks < MaxTicks
    /\ ticks' = ticks + 1
    /\ UNCHANGED <<otherVars, pc, entry, apiKey, creds, nSymbols, nQuotes, qidx, marketCalls,
                   llmCalls, interrupted>>

\* KeyboardInterrupt during the loop, then ctx.close()
RQ_Interrupt ==
    /\ pc = "run_listening" /\ entry = RealtimeQuotes
    /\ interrupted' = TRUE
    /\ pc' = "run_done"
    /\ UNCHANGED <<otherVars, entry, apiKey, creds, nSymbols, nQuotes, qidx, marketCalls,
                   llmCalls, ticks>>

\* python deepseek_analysis.py without DEEPSEEK_API_KEY
DS_NoApiKey ==
    /\ pc = "run_start" /\ entry = DeepseekAnalysis
    /\ ~apiKey
    /\ pc' = "run_failed"
    /\ UNCHANGED <<otherVars, runVars>>

\* analysis = analyze_quote(symbol, price); print(analysis)
DS_Analyze ==
    /\ pc = "run_start" /\ entry = DeepseekAnalysis
    /\ apiKey
    /\ llmCalls' = llmCalls + 1
    /\ pc' = "run_done"
    /\ UNCHANGED <<otherVars, entry, apiKey, creds, nSymbols, nQuotes, qidx, marketCalls, ticks,
                   interrupted>>

\* the chat completion request raises
DS_AnalyzeFails ==
    /\ pc = "run_start" /\ entry = DeepseekAnalysis
    /\ apiKey
    /\ llmCalls' = llmCalls + 1
    /\ pc' = "run_failed"
    /\ UNCHANGED <<otherVars, entry, apiKey, creds, nSymbols, nQuotes, qidx, marketCalls, ticks,
                   interrupted>>

NextRun ==
    \/ RA_ReadSymbolsFails \/ RA_ReadSymbols \/ RA_Quote \/ RA_QuoteFails
    \/ RA_NoApiKey \/ RA_Analyze \/ RA_AnalyzeFails \/ RA_WriteOutput
    \/ RQ_MissingCredentials \/ RQ_NoSymbols \/ RQ_Subscribe \/ RQ_SubscribeFails
    \/ RQ_Sleep \/ RQ_Interrupt
    \/ DS_NoApiKey \/ DS_Analyze \/ DS_AnalyzeFails

SpecRun == InitRun /\ [][NextRun]_vars

(***************************************************************************)
(* Properties of normalize_symbol                                          *)
(***************************************************************************)
\* a ticker as the documentation describes it: letter-led, made of letters,
\* digits, '-' and '.', at most 10 characters
ValidTicker(t) ==
    /\ Len(t) >= 1 /\ Len(t) <= 10
    /\ IsLetter(t[1])
    /\ \A i \in 1..Len(t) : IsLetter(t[i]) \/ IsDigit(t[i]) \/ t[i] \in {"-", "."}

UpToFiveDigits(d) == Len(d) >= 1 /\ Len(d) <= 5 /\ \A i \in 1..Len(d) : IsDigit(d[i])

ZeroPadTo5(d) == [i \in 1..(5 - Len(d)) |-> "0"] \o d

\* C1: for every valid ticker T, the inputs T, 'US.T' and 'T.US' all return
\* 'US.' followed by T in upper case.
C1_USFormsCanonical ==
    pc = "returned" =>
        /\ ValidTicker(raw) => result = Ok(PrefixUS \o Upper(raw))
        /\ (StartsWith(raw, PrefixUS) /\ ValidTicker(Drop(raw, 3)))
              => result = Ok(PrefixUS \o Upper(Drop(raw, 3)))
        /\ (EndsWith(raw, SuffixUS) /\ ValidTicker(Take(raw, Len(raw) - 3)))
              => result = Ok(PrefixUS \o Upper(Take(raw, Len(raw) - 3)))

\* C2: for every string D of 1-5 digits, the inputs D, 'HK.D' and 'D.HK'
\* (prefix and suffix in any letter case, surrounding whitespace ignored)
\* return 'HK.' followed by D zero-padded to exactly 5 digits.
C2_HKFormsCanonical ==
    pc = "returned" =>
        LET s == Strip(raw) IN
        /\ UpToFiveDigits(s) => result = Ok(PrefixHK \o ZeroPadTo5(s))
        /\ (StartsWith(Upper(s), PrefixHK) /\ UpToFiveDigits(Drop(s, 3)))
              => result = Ok(PrefixHK \o ZeroPadTo5(Drop(s, 3)))
        /\ (EndsWith(Upper(s), SuffixHK) /\ UpToFiveDigits(Take(s, Len(s) - 3)))
              => result = Ok(PrefixHK \o ZeroPadTo5(Take(s, Len(s) - 3)))

\* a padded, lower-case suffixed HK code has been normalized
C2_Witness ==
    /\ pc = "returned"
    /\ raw = <<" ">> \o <<"7", "0">> \o <<".", "h", "k">> \o <<"\t", " ">>
    /\ result = Ok(<<"H","K",".","0","0","0","7","0">>)

IsCanonicalHK(v) ==
    /\ Len(v) = 8
    /\ Take(v, 3) = PrefixHK
    /\ \A i \in 4..8 : IsDigit(v[i])

IsCanonicalUS(v) ==
    /\ Len(v) > 3
    /\ Take(v, 3) = PrefixUS
    /\ \A i \in 4..Len(v) : IsUpperLetter(v[i]) \/ IsDigit(v[i]) \/ v[i] \in {"-", "."}

\* C3: every string normalize_symbol returns is 'HK.' followed by exactly 5
\* digits or 'US.' followed by an upper-case ticker of letters, digits, '.'
\* and '-'.
C3_ResultCanonical ==
    (pc = "returned" /\ result.kind = "ok") =>
        IsCanonicalHK(result.val) \/ IsCanonicalUS(result.val)

\* the five grammars, as the documentation lists them
Grammar1(s) == UpToFiveDigits(s) \/ (StartsWith(Upper(s), PrefixHK) /\ UpToFiveDigits(Drop(s, 3)))
Grammar2(s) == EndsWith(Upper(s), SuffixHK) /\ UpToFiveDigits(Take(s, Len(s) - 3))
Grammar3(s) == ValidTicker(s) \/ (StartsWith(Upper(s), PrefixUS) /\ ValidTicker(Drop(s, 3)))
Grammar4(s) ==
    /\ EndsWith(Upper(s), SuffixUS)
    /\ Len(s) >= 4 /\ Len(s) <= 13
    /\ \A i \in 1..(Len(s) - 3) : IsLetter(s[i]) \/ IsDigit(s[i]) \/ s[i] \in {"-", "."}
Grammar5(s) == StartsWith(Upper(s), PrefixHK) \/ StartsWith(Upper(s), PrefixUS)

MatchesSomeGrammar(s) == Grammar1(s) \/ Grammar2(s) \/ Grammar3(s) \/ Grammar4(s) \/ Grammar5(s)

Blank(s) == \A i \in 1..Len(s) : IsSpace(s[i])

\* C4: normalize_symbol fails with EmptySymbol exactly when the input is empty
\* or whitespace-only, with InvalidSymbolFormat exactly when the non-empty
\* stripped input matches none of the five grammars, and returns a symbol for
\* every other input.
C4_ErrorKinds ==
    pc = "returned" =>
        /\ (result.kind = "EmptySymbol") <=> Blank(raw)
        /\ (result.kind = "InvalidSymbolFormat") <=> (~Blank(raw) /\ ~MatchesSomeGrammar(Strip(raw)))
        /\ (result.kind = "ok") <=> (~Blank(raw) /\ MatchesSomeGrammar(Strip(raw)))

\* '!!!' has been rejected as an unsupported format
C4_Witness ==
    /\ pc = "returned"
    /\ raw = <<"!","!","!">>
    /\ result = Raise("InvalidSymbolFormat")

\* C15: normalize_symbol is idempotent on its own output: a symbol it returned,
\* passed through it again, is accepted and comes back unchanged.
C15_NormalizeIdempotent ==
    pc = "renormalized" => result = Ok(raw)

(***************************************************************************)
(* Properties of read_symbols                                              *)
(***************************************************************************)
RowIsValid(row) == ~Blank(IF row.present THEN row.text ELSE <<>>) /\ normalize_symbol(row.text).kind = "ok"

\* the canonical values of the valid rows among the first n rows, in row order
RECURSIVE CanonicalsOf(_, _)
CanonicalsOf(rs, n) ==
    IF n = 0 THEN <<>>
    ELSE IF RowIsValid(rs[n]) THEN Append(CanonicalsOf(rs, n - 1), normalize_symbol(rs[n].text).val)
    ELSE CanonicalsOf(rs, n - 1)

\* the stripped text of the non-blank rows that fail to normalize, in row order
RECURSIVE InvalidsOf(_, _)
InvalidsOf(rs, n) ==
    IF n = 0 THEN <<>>
    ELSE IF rs[n].present /\ ~Blank(rs[n].text) /\ ~RowIsValid(rs[n])
         THEN Append(InvalidsOf(rs, n - 1), Strip(rs[n].text))
    ELSE InvalidsOf(rs, n - 1)

\* s with every occurrence after the first of the same value removed
RECURSIVE FirstOccurrences(_, _)
FirstOccurrences(s, n) ==
    IF n = 0 THEN <<>>
    ELSE IF \E j \in 1..(n - 1) : s[j] = s[n] THEN FirstOccurrences(s, n - 1)
    ELSE Append(FirstOccurrences(s, n - 1), s[n])

NoDuplicates(s) == \A i, j \in 1..Len(s) : s[i] = s[j] => i = j

ExpectedList(rs, n) == LET c == CanonicalsOf(rs, n) IN FirstOccurrences(c, Len(c))

\* C5: the output list has no duplicate and equals the normalize_symbol results
\* of the non-blank, normalizable rows in row order with later occurrences of
\* a value removed; at every step of the loop 'seen' is the set of elements of
\* the output list.
C5_DedupFirstSeen ==
    /\ NoDuplicates(out)
    /\ seen = Range(out)
    /\ out = ExpectedList(rows, idx)
    /\ pc = "returned_list" => ret = Ok(ExpectedList(rows, Len(rows)))

\* the documented example has been loaded: the third row repeats the first
C5_Witness ==
    /\ pc = "returned_list"
    /\ rows = ExampleRows
    /\ Len(ret.val) = 2
    /\ ret.val[1] = <<"H","K",".","0","0","7","0","0">>

\* C6: a blank or invalid row never aborts the load: it is skipped (an invalid
\* one is reported) and the loop goes on, so every valid row's canonical
\* symbol is in the result whatever rows surround it.
C6_RowFailuresNonFatal ==
    /\ pc = "raised" => ret.kind \in {"FileNotFound", "MissingHeader", "NoValidSymbols"}
    /\ (pc = "raised" /\ ret.kind = "NoValidSymbols") => idx = Len(rows)
    /\ skipped = InvalidsOf(rows, idx)
    /\ pc = "returned_list" =>
          /\ idx = Len(rows)
          /\ \A i \in 1..Len(rows) :
                RowIsValid(rows[i]) => normalize_symbol(rows[i].text).val \in Range(ret.val)

\* a list was returned from a file with an invalid row before a valid row and
\* a blank row after it
C6_Witness ==
    /\ pc = "returned_list"
    /\ Len(rows) = 3
    /\ rows[1] = Field(<<"!","!">>)
    /\ rows[2] = Field(<<"A">>)
    /\ rows[3] = Field(<<" "," ">>)
    /\ ret = Ok(<< <<"U","S",".","A">> >>)
    /\ skipped = << <<"!","!">> >>

SomeRowValid == \E i \in 1..Len(rows) : RowIsValid(rows[i])

\* C7: a list is returned only when the file exists, the header has a 'symbol'
\* column and some row normalizes, and it is then non-empty; otherwise the
\* load fails with the first failing condition among FileNotFound,
\* MissingHeader, NoValidSymbols.
C7_StructuralErrors ==
    /\ pc = "returned_list" =>
          /\ fileExists
          /\ ColSymbol \in Range(fieldnames)
          /\ SomeRowValid
          /\ ret.kind = "ok" /\ ret.val # <<>>
    /\ pc = "raised" =>
          ret.kind = IF ~fileExists THEN "FileNotFound"
                     ELSE IF ColSymbol \notin Range(fieldnames) THEN "MissingHeader"
                     ELSE "NoValidSymbols"
    /\ (pc = "raised" /\ ret.kind = "NoValidSymbols") => ~SomeRowValid

\* a file with a 'symbol' header and only blank or invalid rows was rejected
C7_Witness ==
    /\ pc = "raised"
    /\ ret.kind = "NoValidSymbols"
    /\ ColSymbol \in Range(fieldnames)
    /\ Len(rows) = 2
    /\ rows[1] = Field(<<"!","!">>)
    /\ rows[2] = MissingField

\* a file whose header lacks 'symbol' was rejected although it has a valid row
C7_WitnessHeader ==
    /\ pc = "raised"
    /\ ret.kind = "MissingHeader"
    /\ SomeRowValid

(***************************************************************************)
(* Properties of force_to_dict                                             *)
(***************************************************************************)
RECURSIVE StrictValue(_)
RECURSIVE StrictItems(_)
RECURSIVE StrictFields(_)

\* the JSON text of a response object: every key and every bare word quoted,
\* literals in lower case
StrictValue(x) ==
    CASE Tag(x) \in {"str", "word"} -> <<Quote>> \o Val(x) \o <<Quote>>
      [] Tag(x) = "lit" -> Lower(Val(x))
      [] Tag(x) = "num" -> Val(x)
      [] Tag(x) = "list" -> <<"[">> \o StrictItems(Val(x)) \o <<"]">>
      [] Tag(x) = "obj" -> <<"{">> \o StrictFields(Val(x)) \o <<"}">>

StrictItems(l) ==
    IF l = <<>> THEN <<>>
    ELSE IF Len(l) = 1 THEN StrictValue(l[1])
    ELSE StrictValue(l[1]) \o <<",">> \o StrictItems(Tail(l))

StrictFields(l) ==
    IF l = <<>> THEN <<>>
    ELSE IF Len(l) = 1 THEN <<Quote>> \o l[1][1] \o <<Quote, ":">> \o StrictValue(l[1][2])
    ELSE <<Quote>> \o l[1][1] \o <<Quote, ":">> \o StrictValue(l[1][2]) \o <<",">>
         \o StrictFields(Tail(l))

\* what parsing the properly quoted JSON of the current response gives
ExpectedParse == json_loads(StrictValue(stock))

IsBareWord(x) == Tag(x) = "word"
IsNumber(x) == Tag(x) = "num"
IsBoolean(x) == Tag(x) = "lit" /\ Val(x) \in {LitTrue, LitFalse}
IsLiteral(x) == Tag(x) = "lit"
IsQuoted(x) == Tag(x) = "str"
IsListOf(x, kinds) == Tag(x) = "list" /\ \A i \in 1..Len(Val(x)) : Tag(Val(x)[i]) \in kinds

\* a record of bare words, bare-word lists, numbers and booleans
IsUnquotedRecord(x) ==
    /\ Tag(x) = "obj"
    /\ \A i \in 1..Len(Val(x)) :
          \/ IsBareWord(Val(x)[i][2]) \/ IsNumber(Val(x)[i][2]) \/ IsBoolean(Val(x)[i][2])
          \/ IsListOf(Val(x)[i][2], {"word"})

\* C8: a record with unquoted keys and unquoted values (bare words, also ones
\* that begin with a digit, bare-word lists, numbers, booleans) is coerced to
\* the structure obtained by parsing its properly quoted JSON.
C8_UnquotedRecordCoerced ==
    (pc = "coerced" /\ IsUnquotedRecord(stock)) =>
        (parsed.kind = "ok" /\ parsed = ExpectedParse)

\* a record whose values are quoted strings or lists of quoted strings
IsQuotedRecord(x) ==
    /\ Tag(x) = "obj"
    /\ \A i \in 1..Len(Val(x)) : IsQuoted(Val(x)[i][2]) \/ IsListOf(Val(x)[i][2], {"str"})

\* C9: every already-quoted string, in value position or as a list item, also
\* one that contains a comma, a space or a colon, comes out as the same string.
C9_QuotedStringsPreserved ==
    (pc = "coerced" /\ IsQuotedRecord(stock)) =>
        (parsed.kind = "ok" /\ parsed = ExpectedParse)

\* a value all of whose list items are unquoted: a list of bare words, numbers
\* and literals, at top level, as a field, or nested in another list
IsUnquotedList(x) ==
    \/ IsListOf(x, {"word", "num", "lit"})
    \/ (Tag(x) = "list" /\ Len(Val(x)) = 1 /\ IsListOf(Val(x)[1], {"word", "num", "lit"}))

HasOnlyUnquotedLists(x) ==
    \/ IsUnquotedList(x)
    \/ (Tag(x) = "obj" /\ Len(Val(x)) = 1 /\ IsUnquotedList(Val(x)[1][2]))

\* C10: in every list the items keep their number and order; numeric items
\* parse as numbers, true/false/null in any letter case as booleans/null, and
\* any other unquoted item as the string of its text; also for a list at top
\* level or inside another list.
C10_ListItemsTyped ==
    (pc = "coerced" /\ HasOnlyUnquotedLists(stock)) =>
        (parsed.kind = "ok" /\ parsed = ExpectedParse)

(***************************************************************************)
(* Properties of translate_keys                                            *)
(***************************************************************************)
HasKey(pairs, k) == \E j \in DOMAIN pairs : pairs[j][1] = k

ValueAt(pairs, k) == pairs[CHOOSE j \in DOMAIN pairs : pairs[j][1] = k][2]

RECURSIVE Relabeled(_, _)

\* y is x with every key of KEY_MAP replaced by its label and nothing else changed
Relabeled(x, y) ==
    IF Tag(x) = "list"
    THEN /\ Tag(y) = "list"
         /\ Len(Val(y)) = Len(Val(x))
         /\ \A i \in DOMAIN Val(x) : Relabeled(Val(x)[i], Val(y)[i])
    ELSE IF Tag(x) = "obj"
    THEN /\ Tag(y) = "obj"
         /\ \A i \in DOMAIN Val(x) :
               /\ HasKey(Val(y), KeyLabel(Val(x)[i][1]))
               /\ Relabeled(Val(x)[i][2], ValueAt(Val(y), KeyLabel(Val(x)[i][1])))
         /\ \A j \in DOMAIN Val(y) :
               \E i \in DOMAIN Val(x) : Val(y)[j][1] = KeyLabel(Val(x)[i][1])
    ELSE y = x

RECURSIVE NoKeyOfKeyMap(_)

\* no mapping inside x, at any depth, has a key of KEY_MAP
NoKeyOfKeyMap(x) ==
    IF Tag(x) = "list" THEN \A i \in DOMAIN Val(x) : NoKeyOfKeyMap(Val(x)[i])
    ELSE IF Tag(x) = "obj"
    THEN \A i \in DOMAIN Val(x) : ~InKeyMap(Val(x)[i][1]) /\ NoKeyOfKeyMap(Val(x)[i][2])
    ELSE TRUE

IsEmptyContainer(x) == x \in {SObj(<<>>), SList(<<>>)}

IsUnrecognizedObject(x) == Tag(x) = "obj" /\ NoKeyOfKeyMap(x)

\* C13: force_to_dict followed by translate_keys maps an empty object to an
\* empty object and an empty list to an empty list, and maps an object none
\* of whose keys is in KEY_MAP to a structure with the same keys and values.
C13_RoundTrip ==
    (pc \in {"coerced", "translated"} /\ (IsEmptyContainer(stock) \/ IsUnrecognizedObject(stock))) =>
        /\ parsed.kind = "ok"
        /\ pc = "translated" => translated = ExpectedParse.val

\* C11: translate_keys relabels purely: at every depth a key of KEY_MAP becomes
\* its label, every other key is kept with its own value, lists keep length
\* and order, leaves are unchanged.
C11_PureRelabeling ==
    pc \in {"relabeled", "relabeled_twice"} => Relabeled(data, translated)

\* no label of KEY_MAP is a key of KEY_MAP
LabelsAreNotKeys ==
    \A i \in DOMAIN KEY_MAP : ~InKeyMap(KEY_MAP[i][2])

\* C12: with the repository's KEY_MAP relabeling is idempotent: translate_keys
\* applied to its own result returns that result unchanged, and no label of
\* KEY_MAP is itself a key of KEY_MAP.
C12_RelabelIdempotent ==
    /\ LabelsAreNotKeys
    /\ pc = "relabeled_twice" => retranslated = translated

\* a value in which some key was relabeled has gone through both passes
C12_Witness ==
    /\ pc = "relabeled_twice"
    /\ translated # data
    /\ retranslated = translated

(***************************************************************************)
(* Properties of the entry points                                          *)
(***************************************************************************)
RoundTrips == marketCalls + llmCalls

====
